---- MODULE Spec2Model ----
(***************************************************************************)
(* Model of cutils (code_utils.hpp): the variadic print routine, the       *)
(* human_readable_time conversion, the scope Timer and the xorshift32      *)
(* generator.  The four components are independent; each has its own       *)
(* specification (SpecPrint, SpecHRT, SpecTimer, SpecRng) over the         *)
(* variables it owns, the other variables staying at their initial value.  *)
(***************************************************************************)
EXTENDS Integers, Sequences, FiniteSets

VARIABLES
  \* human_readable_time: the argument and the returned record
  diff_in, hrt, hrt_pc,
  \* Timer: the steady clock, the object's fields, std::cout, call history
  clock, ticks, Start, Now, stopped, alive, cout, calls,
  \* xorshift32: the generators, a text stream and where its text came from
  rng, os, osOrigin, osAdv,
  \* print: the last call and the characters it wrote
  call, out

hrtVars   == <<diff_in, hrt, hrt_pc>>
timerVars == <<clock, ticks, Start, Now, stopped, alive, cout, calls>>
rngVars   == <<rng, os, osOrigin, osAdv>>
printVars == <<call, out>>
vars      == <<hrtVars, timerVars, rngVars, printVars>>

(***************************************************************************)
(* long long values.  The nanosecond counts of the claims reach 3.6e12 and *)
(* beyond, past the integers the model checker computes with, so a         *)
(* long long d >= 0 is the pair <<hi, lo>> with d = hi * Limb + lo and     *)
(* 0 <= lo < Limb.  Within the inputs explored no long long overflows.     *)
(***************************************************************************)
Limb == 1000 * 1000

LL(hi, lo) == <<hi, lo>>

Zero == LL(0, 0)

\* a < b on long long
LtLL(a, b) == a[1] < b[1] \/ (a[1] = b[1] /\ a[2] < b[2])

LeLL(a, b) == a = b \/ LtLL(a, b)

\* a + b on long long (carry into the high limb)
AddLL(a, b) ==
  LET lo == a[2] + b[2]
  IN  IF lo >= Limb THEN LL(a[1] + b[1] + 1, lo - Limb) ELSE LL(a[1] + b[1], lo)

\* a - b on long long, for a >= b (borrow from the high limb)
SubLL(a, b) ==
  LET lo == a[2] - b[2]
  IN  IF lo < 0 THEN LL(a[1] - b[1] - 1, lo + Limb) ELSE LL(a[1] - b[1], lo)

\* Truncating division d / D of non-negative long long values.  The divisors of
\* the code are 1000 (below one limb, dividing it) and multiples of 10^6.
DivLL(d, D) ==
  IF D[1] = 0
    THEN LL(d[1] \div D[2], ((d[1] % D[2]) * (Limb \div D[2])) + (d[2] \div D[2]))
    ELSE LET q == d[1] \div D[1] IN LL(q \div Limb, q % Limb)

\* a value above every count explored, standing for a product too large to form
Huge == LL(2^30, 0)

\* q * D for the same divisors (used to state what a quotient is)
MulLL(q, D) ==
  IF D[1] = 0
    THEN IF q[1] >= 2^30 \div D[2] THEN Huge
         ELSE LL((q[1] * D[2]) + ((q[2] * D[2]) \div Limb), (q[2] * D[2]) % Limb)
    ELSE IF q[1] >= 1000 \/ (q[1] * Limb) + q[2] >= 2^30 \div D[1] THEN Huge
         ELSE LL(((q[1] * Limb) + q[2]) * D[1], 0)

\* the literals of human_readable_time
Lit1e3     == LL(0, 1000)          \* 1000ll, 1.e3l
Lit1e6     == LL(1, 0)             \* 1000'000ll, 1.e6
Lit1e9     == LL(1000, 0)          \* 1000'000'000ll, 1.e9
Lit60e9    == LL(60000, 0)         \* 60'000'000'000ll, 1.e9l*60.l
Lit3600e9  == LL(3600000, 0)       \* 3600'000'000'000ll, 1.e9*3600.
Lit60e6    == LL(60, 0)            \* 60'000'000ll

\* faulty variant: the comparison with <= 1 in place of < 1
DoubleRatioAtMostOne(d, T) == LeLL(d, T)

\* diff_d/T < 1 with diff_d = static_cast<double>(diff).  Every long long
\* below 2^53 converts to double exactly, and for 0 <= d < 2^53 and the five
\* thresholds T the rounded quotient d/T is below 1 exactly when d < T
\* ((T-1)/T is at least 2.7e-13 below 1, far above half an ulp).
DoubleRatioBelowOne(d, T) == LtLL(d, T)

UnitOnly(u, d, ns) ==
  [unit |-> u, unit_fine |-> "", diff |-> d, diff_fine |-> ns, diff_ns |-> ns]

human_readable_time(d) ==
  IF DoubleRatioBelowOne(d, Lit1e3) THEN UnitOnly(" ns", d, d)
  ELSE IF DoubleRatioBelowOne(d, Lit1e6) THEN UnitOnly(" µs", DivLL(d, Lit1e3), d)
  ELSE IF DoubleRatioBelowOne(d, Lit1e9) THEN
    [unit |-> " ms", unit_fine |-> " µs", diff |-> DivLL(d, Lit1e6),
     diff_fine |-> DivLL(d, Lit1e3), diff_ns |-> d]
  ELSE IF DoubleRatioBelowOne(d, Lit60e9) THEN
    [unit |-> " s", unit_fine |-> " ms", diff |-> DivLL(d, Lit1e9),
     diff_fine |-> DivLL(d, Lit1e6), diff_ns |-> d]
  ELSE IF DoubleRatioBelowOne(d, Lit3600e9) THEN
    [unit |-> " m", unit_fine |-> " s", diff |-> DivLL(d, Lit60e9),
     diff_fine |-> DivLL(d, Lit1e9), diff_ns |-> d]
  ELSE
    [unit |-> " h", unit_fine |-> " m", diff |-> DivLL(d, Lit3600e9),
     diff_fine |-> DivLL(d, Lit60e6), diff_ns |-> d]

NoHRT == UnitOnly("", Zero, Zero)

(***************************************************************************)
(* Initial values of the four components.                                  *)
(***************************************************************************)
\* no call of human_readable_time made yet
HrtIdle == diff_in = Zero /\ hrt = NoHRT /\ hrt_pc = "idle"

\* a Timer right after construction: Start = Clock::now(), Now the epoch
\* (time_point's default constructor), stopped = false; nothing written
TimerInit ==
  /\ clock = Zero /\ ticks = 0
  /\ Start = clock /\ Now = Zero /\ stopped = FALSE
  /\ alive = TRUE /\ cout = <<>> /\ calls = <<>>

(***************************************************************************)
(* human_readable_time as a called function: SpecHRT                       *)
(***************************************************************************)
MaxDelta == 2

\* d + k for a small integer k (|k| < Limb)
AddInt(d, k) ==
  LET lo == d[2] + k
  IN  IF lo < 0 THEN LL(d[1] - 1, lo + Limb)
      ELSE IF lo >= Limb THEN LL(d[1] + 1, lo - Limb)
      ELSE LL(d[1], lo)

\* the thresholds, their doubles, and the inputs of the specification's examples
Anchors ==
  { Zero, LL(0, 500), Lit1e3, LL(0, 1500), LL(0, 999000), Lit1e6, LL(2, 500000),
    Lit1e9, LL(1500, 0), LL(59999, 999000), Lit60e9, LL(90000, 0),
    LL(3599999, 940000), Lit3600e9, LL(5000000, 0), LL(7200000, 0) }

HrtInputs ==
  { d \in { AddInt(a, k) : a \in Anchors, k \in -MaxDelta..MaxDelta } : d[1] >= 0 }

HrtCall ==
  /\ hrt_pc = "call"
  /\ hrt' = human_readable_time(diff_in)
  /\ hrt_pc' = "done"
  /\ UNCHANGED <<diff_in, timerVars, rngVars, printVars>>

HrtNextInput ==
  /\ hrt_pc = "done"
  /\ diff_in' \in HrtInputs
  /\ hrt' = NoHRT
  /\ hrt_pc' = "call"
  /\ UNCHANGED <<timerVars, rngVars, printVars>>

(***************************************************************************)
(* Timer: SpecTimer                                                        *)
(***************************************************************************)
MaxTicks == 2
MaxCalls == 3

\* amounts by which the steady clock advances between two calls
TickAmounts == { LL(0, 500), LL(2, 500000), LL(90000, 0), LL(5000000, 0) }

Count(x, s) == Cardinality({ i \in 1..Len(s) : s[i] = x })

stopCalls == Count("stop", calls)

\* the line "elapsed time: <diff><unit> (<diff_fine><unit_fine>)"; the
\* wall-clock text before it (std::ctime) is not part of the model
ReportLine(r) == <<r.diff, r.unit, r.diff_fine, r.unit_fine>>

ClockTick ==
  /\ alive /\ ticks < MaxTicks
  /\ \E dt \in TickAmounts : clock' = AddLL(clock, dt)
  /\ ticks' = ticks + 1
  /\ UNCHANGED <<Start, Now, stopped, alive, cout, calls, hrtVars, rngVars, printVars>>

\* Timer::restart()
restart ==
  /\ alive /\ Len(calls) < MaxCalls
  /\ Start' = clock
  /\ calls' = Append(calls, "restart")
  /\ UNCHANGED <<clock, ticks, Now, stopped, alive, cout, hrtVars, rngVars, printVars>>

\* faulty variant: the body of Timer::stop() without the flag assignment
stop_body_keeps_flag ==
  /\ Now' = clock
  /\ cout' = Append(cout, ReportLine(human_readable_time(SubLL(clock, Start))))
  /\ UNCHANGED <<stopped, Start>>

\* the body of Timer::stop()
stop_body ==
  /\ Now' = clock
  /\ cout' = Append(cout, ReportLine(human_readable_time(SubLL(clock, Start))))
  /\ stopped' = TRUE
  /\ UNCHANGED Start

\* an explicit call t.stop()
stop ==
  /\ alive /\ Len(calls) < MaxCalls
  /\ stop_body
  /\ calls' = Append(calls, "stop")
  /\ UNCHANGED <<clock, ticks, alive, hrtVars, rngVars, printVars>>

\* faulty variant: a destructor that reports unconditionally
Destructor_unguarded ==
  /\ alive
  /\ alive' = FALSE
  /\ stop_body
  /\ calls' = Append(calls, "~Timer")
  /\ UNCHANGED <<clock, ticks, hrtVars, rngVars, printVars>>

\* Timer::~Timer()
Destructor ==
  /\ alive
  /\ alive' = FALSE
  /\ IF ~stopped THEN stop_body ELSE UNCHANGED <<Now, cout, stopped, Start>>
  /\ calls' = Append(calls, "~Timer")
  /\ UNCHANGED <<clock, ticks, hrtVars, rngVars, printVars>>

(***************************************************************************)
(* xorshift32: SpecRng                                                     *)
(* A uint32_t x is the pair <<hi, lo>> of its 16-bit halves,               *)
(* x = hi * 2^16 + lo, so that all arithmetic stays within 32 bits.        *)
(***************************************************************************)
Half == 2^16

U32(hi, lo) == <<hi, lo>>

U32Zero == U32(0, 0)

\* std::numeric_limits<uint32_t>::max()
U32Max == U32(Half - 1, Half - 1)

RECURSIVE BitXor(_, _)
\* a ^ b on naturals
BitXor(a, b) ==
  IF a = 0 THEN b
  ELSE IF b = 0 THEN a
  ELSE ((a + b) % 2) + 2 * BitXor(a \div 2, b \div 2)

\* x ^ y on uint32_t
Xor32(x, y) == U32(BitXor(x[1], y[1]), BitXor(x[2], y[2]))

\* x << k on uint32_t (bits shifted past bit 31 are lost), 0 < k < 16
Shl32(x, k) ==
  LET keep == 2^(16 - k)
  IN  U32(((x[1] % keep) * 2^k) + (x[2] \div keep), (x[2] % keep) * 2^k)

\* x >> k on uint32_t, 16 <= k < 32
Shr32(x, k) == U32(0, x[1] \div 2^(k - 16))

\* the default constructor's seed
DefaultSeed == 12

\* faulty variant: a step whose first statement assigns instead of xor-assigning
xorshift_step_assign(x) ==
  LET a == Shl32(x, 13)
      b == Xor32(a, Shr32(a, 17))
  IN  Xor32(b, Shl32(b, 5))

\* the three statements of operator(): x ^= x << 13; x ^= x >> 17; x ^= x << 5
xorshift_step(x) ==
  LET a == Xor32(x, Shl32(x, 13))
      b == Xor32(a, Shr32(a, 17))
  IN  Xor32(b, Shl32(b, 5))

RECURSIVE discard_loop_inclusive(_, _, _)
\* faulty variant: the loop with i <= z as its condition
discard_loop_inclusive(x, i, z) ==
  IF i <= z THEN discard_loop_inclusive(xorshift_step(x), i + 1, z) ELSE x

RECURSIVE discard_loop(_, _, _)
\* for (long long i = 0; i < z; ++i) (*this)();  started with i
discard_loop(x, i, z) ==
  IF i < z THEN discard_loop(xorshift_step(x), i + 1, z) ELSE x

\* ---- text of a uint32_t ------------------------------------------------
DigitChars == <<"0", "1", "2", "3", "4", "5", "6", "7", "8", "9">>

DigitOf(c) == CHOOSE d \in 0..9 : DigitChars[d + 1] = c

IsDigit(c) == \E d \in 0..9 : DigitChars[d + 1] = c

\* x / 10 and x % 10 by long division over the two halves
Div10(x) ==
  LET t == ((x[1] % 10) * Half) + x[2]
  IN  U32(x[1] \div 10, t \div 10)

Mod10(x) == (((x[1] % 10) * Half) + x[2]) % 10

RECURSIVE ToDecimal(_)
\* os << rng.seed_ with the dec flag: the decimal digits, most significant first
ToDecimal(x) ==
  IF x[1] = 0 /\ x[2] < 10 THEN <<DigitChars[x[2] + 1]>>
  ELSE Append(ToDecimal(Div10(x)), DigitChars[Mod10(x) + 1])

RECURSIVE ParseDigits(_, _, _, _)
\* num_get for an unsigned 32-bit value: accumulate the digits; a value above
\* limit is replaced by limit (and failbit is set)
ParseDigits(text, i, acc, limit) ==
  IF i > Len(text) \/ ~IsDigit(text[i]) THEN acc
  ELSE
    LET lo == (acc[2] * 10) + DigitOf(text[i])
        hi == (acc[1] * 10) + (lo \div Half)
        v  == U32(hi, lo % Half)
    IN  IF hi > limit[1] \/ (hi = limit[1] /\ v[2] > limit[2])
          THEN limit
          ELSE ParseDigits(text, i + 1, v, limit)

RECURSIVE SkipWs(_, _)
\* the skipws flag: the index of the first character that is not a blank
SkipWs(text, i) ==
  IF i <= Len(text) /\ text[i] = " " THEN SkipWs(text, i + 1) ELSE i

\* faulty variant: extraction into a signed 32-bit int, which saturates at 2^31 - 1
ParseInt32(text) ==
  ParseDigits(text, SkipWs(text, 1), U32Zero, U32(Half \div 2 - 1, Half - 1))

\* is >> rng.seed_ with the dec and skipws flags
ParseU32(text) == ParseDigits(text, SkipWs(text, 1), U32Zero, U32Max)

\* ---- the generators -----------------------------------------------------
MaxAdv == 3

Gens == {"g", "h"}

Seeds == { U32Zero, U32(0, 1), U32(Half \div 2, 0), U32Max }

None == <<>>

\* a generator holding state x, with the history the properties speak of:
\* origin and adv (the state it was started from and the number of steps
\* since), out (what the last call returned, if it was operator()), skipped
\* (how many of the steps discard made) and read (whether the state was
\* extracted from the stream)
Gen(x, origin, adv, outv, skipped, rd) ==
  [seed_ |-> x, origin |-> origin, adv |-> adv, out |-> outv,
   skipped |-> skipped, read |-> rd]

\* xorshift32() and xorshift32(seed_)
Constructed(v) == Gen(v, v, 0, None, 0, FALSE)

RngInit ==
  /\ rng = [id \in Gens |-> Constructed(U32(0, DefaultSeed))]
  /\ os = <<>> /\ osOrigin = U32Zero /\ osAdv = 0

\* ResultType operator()()
generate(id) ==
  /\ rng[id].adv < MaxAdv
  /\ LET x == xorshift_step(rng[id].seed_)
     IN  rng' = [rng EXCEPT ![id] = [@ EXCEPT !.seed_ = x, !.out = x, !.adv = @ + 1]]
  /\ UNCHANGED <<os, osOrigin, osAdv, hrtVars, timerVars, printVars>>

\* void discard(long long z)
discard(id) ==
  /\ \E z \in 0..(MaxAdv - rng[id].adv) :
       rng' = [rng EXCEPT ![id] =
                 [@ EXCEPT !.seed_ = discard_loop(@, 0, z), !.out = None,
                           !.adv = @ + z, !.skipped = @ + z]]
  /\ UNCHANGED <<os, osOrigin, osAdv, hrtVars, timerVars, printVars>>

\* void seed(): *this = xorshift32()
seed_default(id) ==
  /\ rng' = [rng EXCEPT ![id] = Constructed(U32(0, DefaultSeed))]
  /\ UNCHANGED <<os, osOrigin, osAdv, hrtVars, timerVars, printVars>>

\* void seed(ResultType seed_inp): *this = xorshift32(seed_inp)
seed(id) ==
  /\ \E v \in Seeds : rng' = [rng EXCEPT ![id] = Constructed(v)]
  /\ UNCHANGED <<os, osOrigin, osAdv, hrtVars, timerVars, printVars>>

\* bool operator==(xorshift32 const& rhs) const
Equal(a, b) == a.seed_ = b.seed_

\* operator<<(os, rng) into an empty stream; rng is a const reference
write(id) ==
  /\ os' = ToDecimal(rng[id].seed_)
  /\ osOrigin' = rng[id].origin
  /\ osAdv' = rng[id].adv
  /\ UNCHANGED <<rng, hrtVars, timerVars, printVars>>

\* operator>>(is, rng) from a stream holding the text os (an empty stream
\* fails before anything is stored)
read(id) ==
  /\ os # <<>>
  /\ rng' = [rng EXCEPT ![id] = Gen(ParseU32(os), osOrigin, osAdv, None, 0, TRUE)]
  /\ UNCHANGED <<os, osOrigin, osAdv, hrtVars, timerVars, printVars>>

(***************************************************************************)
(* print: SpecPrint                                                        *)
(* An argument is an int, a char or a container of ints; std::cout is the  *)
(* sequence of characters written.                                         *)
(***************************************************************************)
MaxVal == 3
MaxArgs == 3
MaxLen == 3

IntArg(n) == [kind |-> "int", n |-> n, c |-> "", elems |-> <<>>]
CharArg(c) == [kind |-> "char", n |-> 0, c |-> c, elems |-> <<>>]
ContainerArg(e) == [kind |-> "container", n |-> 0, c |-> "", elems |-> e]

\* concept Container, for the argument types of the model
Container(a) == a.kind = "container"

\* concept StdOutStreamable: std::cout << t compiles
StdOutStreamable(a) == a.kind \in {"int", "char"}

\* the characters std::cout << t writes
Streamed(a) == IF a.kind = "int" THEN ToDecimal(U32(0, a.n)) ELSE <<a.c>>

RECURSIVE print(_, _, _)
RECURSIVE container_loop_by_position(_, _, _, _)
RECURSIVE container_loop_break(_, _, _, _)
RECURSIVE container_loop(_, _, _, _)

\* faulty variant: the range-for of print(Container) comparing positions, not values
container_loop_by_position(sep, end, output, i) ==
  IF i > Len(output) THEN <<>>
  ELSE (IF i # Len(output)
          THEN print(sep, " ", <<IntArg(output[i]), CharArg(",")>>)
          ELSE print(sep, end, <<IntArg(output[i]), CharArg("}")>>))
       \o container_loop_by_position(sep, end, output, i + 1)

\* faulty variant: the range-for of print(Container) leaving the loop after the brace
container_loop_break(sep, end, output, i) ==
  IF i > Len(output) THEN <<>>
  ELSE IF output[i] # output[Len(output)]
    THEN print(sep, " ", <<IntArg(output[i]), CharArg(",")>>)
         \o container_loop_break(sep, end, output, i + 1)
    ELSE print(sep, end, <<IntArg(output[i]), CharArg("}")>>)

\* the range-for of print(Container auto const&), from element i on;
\* last_elem is *(output.end()-1)
container_loop(sep, end, output, i) ==
  IF i > Len(output) THEN <<>>
  ELSE (IF output[i] # output[Len(output)]
          THEN print(sep, " ", <<IntArg(output[i]), CharArg(",")>>)
          ELSE print(sep, end, <<IntArg(output[i]), CharArg("}")>>))
       \o container_loop(sep, end, output, i + 1)

\* print<sep, end>()
print_none(sep, end) == <<end>>

\* print<sep, end>(Container auto const& output), output not empty
print_container(sep, end, output) ==
  print(sep, " ", <<CharArg("{")>>) \o container_loop(sep, end, output, 1)

\* print<sep, end>(Printable auto const& first, Printable auto const&... rest)
print_variadic(sep, end, args) ==
  (IF StdOutStreamable(args[1])
     THEN Streamed(args[1]) \o <<sep>>
     ELSE print(sep, " ", <<args[1]>>))
  \o print(sep, end, Tail(args))

\* a call print<sep, end>(args...): overload resolution picks print() for no
\* argument, the Container overload for one container, the variadic one otherwise
print(sep, end, args) ==
  IF args = <<>> THEN print_none(sep, end)
  ELSE IF Len(args) = 1 /\ Container(args[1]) THEN print_container(sep, end, args[1].elems)
  ELSE print_variadic(sep, end, args)

Seps == {" ", ";"}
Ends == {"\n", " "}

SeqsUpTo(S, n) == UNION { [1..k -> S] : k \in 0..n }

Containers == SeqsUpTo(1..MaxVal, MaxLen) \ {<<>>}

NoCall == [kind |-> "none", sep |-> " ", end |-> " ", args |-> <<>>, done |-> TRUE]

PrintInit == call = NoCall /\ out = <<>>

Call(kind, sep, end, args) ==
  [kind |-> kind, sep |-> sep, end |-> end, args |-> args, done |-> FALSE]

\* the calls made: print<sep, end>(v1, ..., vn) with n >= 0 ints, print<sep, end>(c)
\* with a non-empty container c, print<sep, end>(n, c) and print<sep, end>(c, n)
ValueCalls ==
  { Call("values", sep, end, [i \in 1..Len(vs) |-> IntArg(vs[i])]) :
      sep \in Seps, end \in Ends, vs \in SeqsUpTo(1..MaxVal, MaxArgs) }

ContainerCalls ==
  { Call("container", sep, end, <<ContainerArg(c)>>) :
      sep \in Seps, end \in Ends, c \in Containers }

MixedCalls ==
  { Call("mixed", sep, end, <<IntArg(n), ContainerArg(c)>>) :
      sep \in Seps, end \in Ends, c \in Containers, n \in 1..MaxVal }
  \cup
  { Call("mixed", sep, end, <<ContainerArg(c), IntArg(n)>>) :
      sep \in Seps, end \in Ends, c \in Containers, n \in 1..MaxVal }

\* the pending call runs and writes to std::cout
run_print ==
  /\ ~call.done
  /\ out' = print(call.sep, call.end, call.args)
  /\ call' = [call EXCEPT !.done = TRUE]
  /\ UNCHANGED <<hrtVars, timerVars, rngVars>>

call_print_values == call.kind = "values" /\ run_print

call_print_container == call.kind = "container" /\ run_print

call_print_mixed == call.kind = "mixed" /\ run_print

(***************************************************************************)
(* The specifications                                                      *)
(***************************************************************************)
InitHRT ==
  /\ diff_in \in HrtInputs /\ hrt = NoHRT /\ hrt_pc = "call"
  /\ TimerInit /\ RngInit /\ PrintInit

NextHRT == HrtCall \/ HrtNextInput

SpecHRT == InitHRT /\ [][NextHRT]_vars

InitTimer == HrtIdle /\ TimerInit /\ RngInit /\ PrintInit

NextTimer == ClockTick \/ restart \/ stop \/ Destructor

SpecTimer == InitTimer /\ [][NextTimer]_vars

InitRng == HrtIdle /\ TimerInit /\ RngInit /\ PrintInit

\* g is the generator the calls are made on; h is a second generator, started
\* from a seed or read from the stream, and advanced by operator() alone
NextRng ==
  \/ generate("g")
  \/ discard("g")
  \/ seed_default("g")
  \/ seed("g")
  \/ write("g")
  \/ seed_default("h")
  \/ seed("h")
  \/ generate("h")
  \/ read("h")

SpecRng == InitRng /\ [][NextRng]_vars

InitPrint ==
  /\ HrtIdle /\ TimerInit /\ RngInit
  /\ call \in ValueCalls \cup ContainerCalls \cup MixedCalls
  /\ out = <<>>

NextPrint == call_print_values \/ call_print_container \/ call_print_mixed

SpecPrint == InitPrint /\ [][NextPrint]_vars

(***************************************************************************)
(* Properties of the Timer (SpecTimer)                                     *)
(***************************************************************************)
\* C1 as stated: between construction and destruction at most one report is
\* written, whatever restart() and stop() calls are made.
C1_AtMostOneReport == Len(cout) <= 1

\* C1, amended: every stop() call writes one report and the destructor
\* writes one more only when stop() was never called; with at most one
\* stop() call there is at most one report in total.
C1_OneReportPerStopCall ==
  /\ Len(cout) \in {stopCalls, stopCalls + 1}
  /\ Len(cout) = stopCalls + 1 => (~alive /\ stopCalls = 0)
  /\ stopCalls <= 1 => Len(cout) <= 1

C1_Witness ==
  /\ ~alive /\ stopCalls = 2 /\ Count("restart", calls) = 1
  /\ Len(cout) = 2

\* C2: once the Timer is destroyed, the destructor has reported if and only
\* if stop() was never called (restart() calls do not matter); a Timer never
\* stopped, and a Timer stopped once, have exactly one report in total.
C2_DestructorReportsIffNeverStopped ==
  ~alive =>
    /\ (Len(cout) = stopCalls + 1) <=> (stopCalls = 0)
    /\ (Len(cout) = stopCalls) <=> (stopCalls > 0)
    /\ stopCalls \in {0, 1} => Len(cout) = 1

C2_Witness ==
  /\ calls = <<"stop", "restart", "~Timer">>
  /\ ~alive /\ stopped /\ Len(cout) = 1 /\ LtLL(Now, Start)

(***************************************************************************)
(* Properties of human_readable_time (SpecHRT)                             *)
(***************************************************************************)
One == LL(0, 1)

\* q is the truncated quotient d / D:  q * D <= d < q * D + D
IsQuotient(q, d, D) ==
  /\ LeLL(MulLL(q, D), d)
  /\ LtLL(d, AddLL(MulLL(q, D), D))

\* the unit and the coarse divisor by the first threshold d is below
UnitFor(d) ==
  IF LtLL(d, Lit1e3) THEN " ns"
  ELSE IF LtLL(d, Lit1e6) THEN " µs"
  ELSE IF LtLL(d, Lit1e9) THEN " ms"
  ELSE IF LtLL(d, Lit60e9) THEN " s"
  ELSE IF LtLL(d, Lit3600e9) THEN " m"
  ELSE " h"

CoarseDivisor(u) ==
  CASE u = " ns" -> One
    [] u = " µs" -> Lit1e3
    [] u = " ms" -> Lit1e6
    [] u = " s"  -> Lit1e9
    [] u = " m"  -> Lit60e9
    [] u = " h"  -> Lit3600e9

\* C3: the unit is chosen by the first threshold the count is below (a
\* threshold itself belongs to the higher unit), the coarse magnitude is the
\* truncated quotient by that unit's divisor, and diff_ns is the count.
C3_UnitAndCoarseMagnitude ==
  hrt_pc = "done" =>
    /\ hrt.unit = UnitFor(diff_in)
    /\ IsQuotient(hrt.diff, diff_in, CoarseDivisor(hrt.unit))
    /\ hrt.diff_ns = diff_in
    /\ diff_in = Lit1e3 => hrt.unit = " µs"
    /\ diff_in = Lit1e6 => hrt.unit = " ms"
    /\ diff_in = Lit1e9 => hrt.unit = " s"
    /\ diff_in = Lit60e9 => hrt.unit = " m"
    /\ diff_in = Lit3600e9 => hrt.unit = " h"

C3_Witness ==
  /\ hrt_pc = "done" /\ diff_in = Lit3600e9
  /\ hrt.unit = " h" /\ hrt.diff = One

\* the fine divisor the specification documents for each coarse unit
DocumentedFineDivisor(u) ==
  CASE u = " ms" -> Lit1e3
    [] u = " s"  -> Lit1e6
    [] u = " m"  -> Lit1e9
    [] u = " h"  -> Lit60e9

\* C4: the fine magnitude is the truncated quotient of the count by the
\* documented fine divisor of the chosen unit (whole minutes for " h").
C4_FineMagnitude ==
  (hrt_pc = "done" /\ hrt.unit \in {" ms", " s", " m", " h"}) =>
    IsQuotient(hrt.diff_fine, diff_in, DocumentedFineDivisor(hrt.unit))

(***************************************************************************)
(* Properties of xorshift32 (SpecRng)                                      *)
(***************************************************************************)
\* g and h were started from the same state and have made the same number
\* of steps since
Aligned == rng["g"].origin = rng["h"].origin /\ rng["g"].adv = rng["h"].adv

\* C5: g, advanced by discard and operator(), and h, started from the same
\* state and advanced by operator() alone, are in the same state after the
\* same number of steps, and a call made then returns the same value.
C5_DiscardIsRepeatedGeneration ==
  (Aligned /\ ~rng["h"].read) =>
    /\ rng["g"].seed_ = rng["h"].seed_
    /\ (rng["g"].out # None /\ rng["h"].out # None) => rng["g"].out = rng["h"].out

C5_Witness ==
  /\ Aligned /\ ~rng["h"].read /\ rng["h"].skipped = 0
  /\ rng["g"].origin = U32Max
  /\ rng["g"].skipped = 2 /\ rng["g"].adv = 3
  /\ rng["g"].out # None /\ rng["g"].out = rng["h"].out

\* h, extracted from the text g was inserted as, is in g's state whenever the
\* two have made the same number of steps since
C6_RoundTripInv ==
  (Aligned /\ rng["h"].read) =>
    /\ Equal(rng["g"], rng["h"])
    /\ (rng["g"].out # None /\ rng["h"].out # None) => rng["g"].out = rng["h"].out

\* C6: h, extracted from the text g was inserted as, compares equal to g
\* whenever the two have made the same number of steps since, and the calls
\* made then returned the same value; an insertion leaves g as it was.
C6_SerializationRoundTrip ==
  /\ []C6_RoundTripInv
  /\ [][os' # os => rng'["g"] = rng["g"]]_vars

C6_Witness ==
  /\ Aligned /\ rng["h"].read
  /\ rng["g"].origin = U32Max /\ osAdv = 1 /\ rng["h"].adv = 2
  /\ Equal(rng["g"], rng["h"])
  /\ rng["h"].out # None /\ rng["g"].out = rng["h"].out

\* C10: a step yields zero exactly from zero; a generator is in state zero
\* exactly when the state it was started from (by construction, seed or
\* extraction) is zero, and every value it returns then is zero.
C10_ZeroIsAbsorbingAndUnreachable ==
  \A id \in Gens :
    /\ (xorshift_step(rng[id].seed_) = U32Zero) <=> (rng[id].seed_ = U32Zero)
    /\ (rng[id].seed_ = U32Zero) <=> (rng[id].origin = U32Zero)
    /\ (rng[id].origin = U32Zero /\ rng[id].out # None) => rng[id].out = U32Zero

C10_Witness ==
  /\ rng["g"].origin = U32Zero /\ rng["g"].skipped = 1 /\ rng["g"].adv = 3
  /\ rng["g"].out = U32Zero
  /\ rng["h"].origin = U32(Half \div 2, 0) /\ rng["h"].adv = 3
  /\ rng["h"].seed_ # U32Zero

(***************************************************************************)
(* Properties of print (SpecPrint)                                         *)
(***************************************************************************)
RECURSIVE Joined(_, _)
\* the texts of the arguments with sep between adjacent ones
Joined(args, sep) ==
  IF Len(args) = 1 THEN Streamed(args[1])
  ELSE Streamed(args[1]) \o <<sep>> \o Joined(Tail(args), sep)

\* C7: print<sep, end>(v1, ..., vn) writes v1 sep v2 ... sep vn end: the last
\* value is followed by end, not by sep.
C7_LastValueFollowedByEnd ==
  (call.kind = "values" /\ call.done /\ Len(call.args) >= 1) =>
    out = Joined(call.args, call.sep) \o <<call.end>>

\* what was written, without the separator and terminator characters
Visible ==
  LET Shown(c) == c \notin {call.sep, call.end, " "}
  IN  SelectSeq(out, Shown)

\* the element texts among what was written
ElementsWritten == SelectSeq(out, IsDigit)

RECURSIVE ElementTexts(_)
ElementTexts(elems) ==
  IF elems = <<>> THEN <<>>
  ELSE ToDecimal(U32(0, Head(elems))) \o ElementTexts(Tail(elems))

RECURSIVE BracedByValue(_, _)
\* each element followed by a comma when it differs from last, by a brace
\* when it equals last
BracedByValue(elems, last) ==
  IF elems = <<>> THEN <<>>
  ELSE ToDecimal(U32(0, Head(elems)))
       \o <<IF Head(elems) # last THEN "," ELSE "}">>
       \o BracedByValue(Tail(elems), last)

ContainerPrinted == call.kind = "container" /\ call.done

Elems == call.args[1].elems

Distinct(elems) == \A i, j \in 1..Len(elems) : elems[i] = elems[j] => i = j

\* an element before the last position equals the last element
EarlyDuplicate(elems) == \E i \in 1..(Len(elems) - 1) : elems[i] = elems[Len(elems)]

\* C8: a non-empty container is written as one opening brace, then every
\* element in order, each followed by a comma if it differs from the last
\* element and by a closing brace if it equals it; with pairwise distinct
\* elements there is one closing brace, after the last element.
C8_CommaOrBraceByValue ==
  ContainerPrinted =>
    /\ Visible = <<"{">> \o BracedByValue(Elems, Elems[Len(Elems)])
    /\ Distinct(Elems) =>
         /\ Count("}", out) = 1
         /\ Visible[Len(Visible)] = "}"
         /\ SubSeq(Visible, Len(Visible) - 1, Len(Visible) - 1)
              = ToDecimal(U32(0, Elems[Len(Elems)]))

C8_Witness ==
  /\ ContainerPrinted /\ Elems = <<2, 3, 1>>
  /\ Visible = <<"{", "2", ",", "3", ",", "1", "}">>

FirstEqualToLast(elems) ==
  CHOOSE i \in 1..Len(elems) :
    /\ elems[i] = elems[Len(elems)]
    /\ \A j \in 1..(i - 1) : elems[j] # elems[Len(elems)]

\* C9 as stated: with an element equal to the last one before the last
\* position, no element after the first such element is written.
C9_NothingWrittenAfterFirstMatch ==
  (ContainerPrinted /\ EarlyDuplicate(Elems)) =>
    ElementsWritten = ElementTexts(SubSeq(Elems, 1, FirstEqualToLast(Elems)))

\* C9, amended: with an element equal to the last one before the last
\* position, a closing brace is written after every element equal to the last
\* one (so more than once, the first time before the last position), and all
\* elements are still written, in order.
C9_BraceEarlyElementsAllWritten ==
  (ContainerPrinted /\ EarlyDuplicate(Elems)) =>
    /\ ElementsWritten = ElementTexts(Elems)
    /\ Count("}", out) = Count(Elems[Len(Elems)], Elems)
    /\ Count("}", out) >= 2

C9_Witness ==
  /\ ContainerPrinted /\ Elems = <<3, 1, 3>>
  /\ Visible = <<"{", "3", "}", "1", ",", "3", "}">>

====
